---------------------------- MODULE Spec2Model ----------------------------
(***************************************************************************)
(* A model of crawler.py: seed resolution, one concurrent batch of         *)
(* url_job coroutines (page fetch, robots.txt fetch, link normalisation    *)
(* and filtering), the merge of the batch's results and the final report.  *)
(*                                                                         *)
(* Text is modelled as it is in the program: a string is a sequence of     *)
(* one-character strings, and urlparse, urljoin, splitext, splitlines,     *)
(* strip and replace are computed character by character.  The network is  *)
(* the environment: every response (status, body, exception) is a          *)
(* nondeterministic choice.                                                *)
(*                                                                         *)
(* Input alphabet: lower-case letters, digits, "D" and "U", and the        *)
(* characters  : / . # ? - * space newline.  Inputs hold no ";" (URL       *)
(* parameters), no "[" "]" (IPv6 hosts), no tab / carriage return and no   *)
(* non-ASCII character.                                                    *)
(***************************************************************************)
EXTENDS Integers, Sequences, FiniteSets, TLC

(***************************************************************************)
(* Strings                                                                 *)
(***************************************************************************)
LowerLetters ==
  {"a","b","c","d","e","f","g","h","i","j","k","l","m",
   "n","o","p","q","r","s","t","u","v","w","x","y","z"}

UpperLetters ==
  {"A","B","C","D","E","F","G","H","I","J","K","L","M",
   "N","O","P","Q","R","S","T","U","V","W","X","Y","Z"}

Digits == {"0","1","2","3","4","5","6","7","8","9"}

\* str.lower() on one character
LowerChar(c) ==
  CASE c = "A" -> "a" [] c = "B" -> "b" [] c = "C" -> "c" [] c = "D" -> "d"
    [] c = "E" -> "e" [] c = "F" -> "f" [] c = "G" -> "g" [] c = "H" -> "h"
    [] c = "I" -> "i" [] c = "J" -> "j" [] c = "K" -> "k" [] c = "L" -> "l"
    [] c = "M" -> "m" [] c = "N" -> "n" [] c = "O" -> "o" [] c = "P" -> "p"
    [] c = "Q" -> "q" [] c = "R" -> "r" [] c = "S" -> "s" [] c = "T" -> "t"
    [] c = "U" -> "u" [] c = "V" -> "v" [] c = "W" -> "w" [] c = "X" -> "x"
    [] c = "Y" -> "y" [] c = "Z" -> "z" [] OTHER -> c

Lower(s) == [i \in 1..Len(s) |-> LowerChar(s[i])]

\* s.find(c), 1-based; 0 when c does not occur
Find(s, c) ==
  IF \E i \in 1..Len(s) : s[i] = c
  THEN CHOOSE i \in 1..Len(s) : s[i] = c /\ \A j \in 1..(i-1) : s[j] # c
  ELSE 0

\* s.rfind(c), 1-based; 0 when c does not occur
RFind(s, c) ==
  IF \E i \in 1..Len(s) : s[i] = c
  THEN CHOOSE i \in 1..Len(s) : s[i] = c /\ \A j \in (i+1)..Len(s) : s[j] # c
  ELSE 0

\* s[:n] and s[n:]
Take(s, n) == SubSeq(s, 1, n)
Drop(s, n) == SubSeq(s, n + 1, Len(s))

\* s.startswith(p)
StartsWith(s, p) == Len(s) >= Len(p) /\ SubSeq(s, 1, Len(p)) = p

\* whitespace of the alphabet
Whitespace == {" ", "\n"}

RECURSIVE LStrip(_)
LStrip(s) ==
  IF s # <<>> /\ s[1] \in Whitespace THEN LStrip(Tail(s)) ELSE s

RECURSIVE RStrip(_)
RStrip(s) ==
  IF s # <<>> /\ s[Len(s)] \in Whitespace
  THEN RStrip(SubSeq(s, 1, Len(s) - 1)) ELSE s

\* s.strip()
Strip(s) == RStrip(LStrip(s))

\* s.split(c): the pieces between occurrences of c
RECURSIVE Split(_, _)
Split(s, c) ==
  IF Find(s, c) = 0 THEN <<s>>
  ELSE <<Take(s, Find(s, c) - 1)>> \o Split(Drop(s, Find(s, c)), c)

\* c.join(parts)
RECURSIVE Join(_, _)
Join(parts, c) ==
  IF parts = <<>> THEN <<>>
  ELSE IF Len(parts) = 1 THEN parts[1]
  ELSE parts[1] \o <<c>> \o Join(Tail(parts), c)

\* txt.splitlines(): lines end at "\n"; no empty last line after a final "\n"
WithoutEmptyLast(parts) ==
  IF parts[Len(parts)] = <<>> THEN SubSeq(parts, 1, Len(parts) - 1)
  ELSE parts

splitlines(txt) ==
  IF txt = <<>> THEN <<>> ELSE WithoutEmptyLast(Split(txt, "\n"))

(***************************************************************************)
(* urllib.parse                                                            *)
(***************************************************************************)
scheme_chars == LowerLetters \cup UpperLetters \cup Digits \cup {"+", "-", "."}

uses_relative ==
  {<<>>,
   <<"f","t","p">>,
   <<"h","t","t","p">>,
   <<"g","o","p","h","e","r">>,
   <<"n","n","t","p">>,
   <<"i","m","a","p">>,
   <<"w","a","i","s">>,
   <<"f","i","l","e">>,
   <<"h","t","t","p","s">>,
   <<"s","h","t","t","p">>,
   <<"m","m","s">>,
   <<"p","r","o","s","p","e","r","o">>,
   <<"r","t","s","p">>,
   <<"r","t","s","p","s">>,
   <<"r","t","s","p","u">>,
   <<"s","f","t","p">>,
   <<"s","v","n">>,
   <<"s","v","n","+","s","s","h">>,
   <<"w","s">>,
   <<"w","s","s">>}

uses_netloc ==
  {<<>>,
   <<"f","t","p">>,
   <<"h","t","t","p">>,
   <<"g","o","p","h","e","r">>,
   <<"n","n","t","p">>,
   <<"t","e","l","n","e","t">>,
   <<"i","m","a","p">>,
   <<"w","a","i","s">>,
   <<"f","i","l","e">>,
   <<"m","m","s">>,
   <<"h","t","t","p","s">>,
   <<"s","h","t","t","p">>,
   <<"s","n","e","w","s">>,
   <<"p","r","o","s","p","e","r","o">>,
   <<"r","t","s","p">>,
   <<"r","t","s","p","s">>,
   <<"r","t","s","p","u">>,
   <<"r","s","y","n","c">>,
   <<"s","v","n">>,
   <<"s","v","n","+","s","s","h">>,
   <<"s","f","t","p">>,
   <<"n","f","s">>,
   <<"g","i","t">>,
   <<"g","i","t","+","s","s","h">>,
   <<"w","s">>,
   <<"w","s","s">>}

\* index of the first of "/", "?", "#" at or after position from; Len+1 if none
NetlocEnd(url, from) ==
  LET hits == {i \in from..Len(url) : url[i] \in {"/", "?", "#"}}
  IN  IF hits = {} THEN Len(url) + 1
      ELSE CHOOSE i \in hits : \A j \in hits : i <= j

\* urlparse(url, scheme): the components of a URL.  The scheme is the text
\* before the first ":" when it starts with a letter and holds scheme
\* characters only; the netloc follows "//" up to the next "/", "?" or "#";
\* the fragment follows the first "#", the query the first "?" before it.
\* The steps of urlsplit follow one another, last first.
parse_query(scheme, netloc, url4, fragment, q) ==
  [scheme   |-> scheme,
   netloc   |-> netloc,
   path     |-> IF q > 0 THEN Take(url4, q - 1) ELSE url4,
   query    |-> IF q > 0 THEN Drop(url4, q) ELSE <<>>,
   fragment |-> fragment]

parse_fragment(scheme, netloc, url3, h) ==
  IF h > 0
  THEN parse_query(scheme, netloc, Take(url3, h - 1), Drop(url3, h),
                   Find(Take(url3, h - 1), "?"))
  ELSE parse_query(scheme, netloc, url3, <<>>, Find(url3, "?"))

parse_rest(scheme, netloc, url3) ==
  parse_fragment(scheme, netloc, url3, Find(url3, "#"))

parse_netloc(scheme, url2, delim) ==
  IF StartsWith(url2, <<"/","/">>)
  THEN parse_rest(scheme, SubSeq(url2, 3, delim - 1),
                  SubSeq(url2, delim, Len(url2)))
  ELSE parse_rest(scheme, <<>>, url2)

parse_scheme(url1, scheme0, i) ==
  IF /\ i > 1
     /\ url1[1] \in LowerLetters \cup UpperLetters
     /\ \A k \in 1..(i-1) : url1[k] \in scheme_chars
  THEN parse_netloc(Lower(Take(url1, i - 1)), Drop(url1, i),
                    NetlocEnd(Drop(url1, i), 3))
  ELSE parse_netloc(scheme0, url1, NetlocEnd(url1, 3))

urlsplit(url1, scheme0) == parse_scheme(url1, scheme0, Find(url1, ":"))

urlparse(url0, scheme0) ==
  urlsplit(SelectSeq(LStrip(url0), LAMBDA c : c # "\n"), scheme0)

\* urlunparse(components)
with_fragment(u, fragment) ==
  IF fragment # <<>> THEN u \o <<"#">> \o fragment ELSE u

with_query(u, query) ==
  IF query # <<>> THEN u \o <<"?">> \o query ELSE u

with_scheme(scheme, u) ==
  IF scheme # <<>> THEN scheme \o <<":">> \o u ELSE u

with_netloc(scheme, netloc, path) ==
  IF netloc # <<>>
     \/ (scheme # <<>> /\ scheme \in uses_netloc
         /\ ~StartsWith(path, <<"/","/">>))
  THEN <<"/","/">> \o netloc
       \o (IF path # <<>> /\ path[1] # "/" THEN <<"/">> ELSE <<>>)
       \o path
  ELSE path

urlunparse(scheme, netloc, path, query, fragment) ==
  with_fragment(
    with_query(with_scheme(scheme, with_netloc(scheme, netloc, path)), query),
    fragment)

\* the loop of urljoin that resolves "." and ".." segments
RECURSIVE ResolveSegments(_, _)
ResolveSegments(segments, resolved) ==
  IF segments = <<>> THEN resolved
  ELSE IF Head(segments) = <<".",".">>
  THEN ResolveSegments(Tail(segments),
         IF resolved = <<>> THEN <<>>
         ELSE SubSeq(resolved, 1, Len(resolved) - 1))
  ELSE IF Head(segments) = <<".">>
  THEN ResolveSegments(Tail(segments), resolved)
  ELSE ResolveSegments(Tail(segments), Append(resolved, Head(segments)))

\* segments[1:-1] = filter(None, segments[1:-1])
DropEmptyInner(segments) ==
  IF Len(segments) <= 2 THEN segments
  ELSE <<segments[1]>>
       \o SelectSeq(SubSeq(segments, 2, Len(segments) - 1),
                    LAMBDA x : x # <<>>)
       \o <<segments[Len(segments)]>>

\* base_parts = bpath.split('/'), without its last item unless that is ''
BaseParts(parts) ==
  IF parts[Len(parts)] # <<>> THEN SubSeq(parts, 1, Len(parts) - 1)
  ELSE parts

\* the segments urljoin resolves
JoinSegments(bpath, path) ==
  IF path[1] = "/" THEN Split(path, "/")
  ELSE DropEmptyInner(BaseParts(Split(bpath, "/")) \o Split(path, "/"))

\* '/'.join(resolved_path) or '/'
JoinedPath(resolved) ==
  IF Join(resolved, "/") = <<>> THEN <<"/">> ELSE Join(resolved, "/")

\* the path urljoin gives for the segments
ResolvedPath(segments) ==
  JoinedPath(
    IF segments[Len(segments)] \in {<<".">>, <<".",".">>}
    THEN Append(ResolveSegments(segments, <<>>), <<>>)
    ELSE ResolveSegments(segments, <<>>))

\* urljoin once base and url are parsed into b and u
join_parsed(url, b, u) ==
  IF u.scheme # b.scheme \/ u.scheme \notin uses_relative THEN url
  ELSE IF u.scheme \in uses_netloc /\ u.netloc # <<>>
  THEN urlunparse(u.scheme, u.netloc, u.path, u.query, u.fragment)
  ELSE IF u.path = <<>>
  THEN urlunparse(u.scheme,
                  IF u.scheme \in uses_netloc THEN b.netloc ELSE u.netloc,
                  b.path,
                  IF u.query = <<>> THEN b.query ELSE u.query,
                  u.fragment)
  ELSE urlunparse(u.scheme,
                  IF u.scheme \in uses_netloc THEN b.netloc ELSE u.netloc,
                  ResolvedPath(JoinSegments(b.path, u.path)),
                  u.query, u.fragment)

join_base(url, b) == join_parsed(url, b, urlparse(url, b.scheme))

\* urljoin(base, url)
urljoin(base, url) ==
  IF base = <<>> THEN url
  ELSE IF url = <<>> THEN base
  ELSE join_base(url, urlparse(base, <<>>))

(***************************************************************************)
(* os.path.splitext                                                        *)
(***************************************************************************)
\* the extension of path.splitext(p): the text from the last "." of the last
\* "/"-separated component, unless only dots precede it in that component
splitext_ext(p) ==
  LET sepIndex == RFind(p, "/")
      dotIndex == RFind(p, ".")
  IN  IF dotIndex > sepIndex
         /\ \E k \in (sepIndex + 1)..(dotIndex - 1) : p[k] # "."
      THEN SubSeq(p, dotIndex, Len(p))
      ELSE <<>>


(***************************************************************************)
(* Program constants                                                       *)
(***************************************************************************)
\* mutant of IGNORE_TYPE: every entry written without its dot
IGNORE_TYPE_nodot ==
  {<<"i","m","g">>, <<"j","p","g">>, <<"p","n","g">>, <<"j","p","e","g">>,
   <<"g","i","f">>, <<"m","p","3">>, <<"m","p","4">>, <<"c","g","i">>,
   <<"w","a","v">>, <<"a","v","i">>, <<"w","m","v">>, <<"f","l","v">>}

IGNORE_TYPE ==
  {<<".","i","m","g">>, <<".","j","p","g">>, <<".","p","n","g">>,
   <<".","j","p","e","g">>, <<".","g","i","f">>, <<".","m","p","3">>,
   <<".","m","p","4">>, <<".","c","g","i">>, <<".","w","a","v">>,
   <<".","a","v","i">>, <<"w","m","v">>, <<"f","l","v">>}

\* parse_args: --depth is a store_true flag with default 3, so args.depth is
\* 3 without the flag and True (the integer 1) with it
DepthDefault == 3
DepthFlagSet == 1

DISALLOW == <<"D","i","s","a","l","l","o","w",":">>
ROBOTS_TXT == <<"r","o","b","o","t","s",".","t","x","t">>

(***************************************************************************)
(* Bounds and the inputs the environment may supply                        *)
(***************************************************************************)
MaxSeeds == 2
MaxLinks == 2

\* seed URLs the search API may return
SeedUrls ==
  {<<"h","t","t","p",":","/","/","a","/">>,
   <<"h","t","t","p",":","/","/","a","/","p">>,
   <<"h","t","t","p","s",":","/","/","b","/">>}

\* sequences over S of length at most n
RECURSIVE SeqsUpTo(_, _)
SeqsUpTo(S, n) ==
  IF n = 0 THEN {<<>>}
  ELSE LET shorter == SeqsUpTo(S, n - 1)
       IN  shorter \cup {Append(q, x) : q \in shorter, x \in S}

SeedLists == SeqsUpTo(SeedUrls, MaxSeeds)
OneSeedLists == {<<u>> : u \in SeedUrls}

\* formattedUrl values that are not strings, and so not sequences of
\* characters: a truthy one (a number other than 0, true), on which
\* urlparse(url) raises AttributeError, and a falsy one (0, null, false), which
\* urlparse takes for '' and session.get rejects at once
TruthyNonString == <<"number">>
FalsyNonString == <<"null">>
IsString(u) == u \notin {TruthyNonString, FalsyNonString}

\* seed lists with an entry that is not a string
NonStringSeedLists ==
  {<<TruthyNonString>>,
   <<<<"h","t","t","p",":","/","/","a","/">>, TruthyNonString>>,
   <<TruthyNonString, <<"h","t","t","p",":","/","/","a","/">>>>,
   <<FalsyNonString>>,
   <<<<"h","t","t","p",":","/","/","a","/">>, FalsyNonString>>,
   <<FalsyNonString, <<"h","t","t","p",":","/","/","a","/">>>>}

\* an <a> element: its href attribute, when it has one
Href(h) == [present |-> TRUE, href |-> h]
NoHref == [present |-> FALSE, href |-> <<>>]

Anchors ==
  {Href(<<"/","x">>),
   Href(<<"/","x","#","1">>),
   Href(<<"/","x","#","2">>),
   Href(<<>>),
   Href(<<"/">>),
   Href(<<"/","p","r","i","v","a","t","e","/","x">>),
   Href(<<"/","p","r","i","v","a","t","e","/">>),
   Href(<<"/","p","u","b","l","i","c","/","x">>),
   Href(<<"/","a",".","p","n","g">>),
   Href(<<"/",".","p","n","g">>),
   Href(<<"/","v",".","m","p","4">>),
   Href(<<"/","s",".","c","g","i">>),
   Href(<<"h","t","t","p",":","/","/","b","/","p","r","i","v","a","t","e","/","x">>),
   Href(<<"/","x","?","q">>),
   Href(<<"/","x","?","r">>),
   NoHref}

\* the anchors of a fetched page, in document order
AllDocs == SeqsUpTo(Anchors, MaxLinks)

RunDocs ==
  {<<Href(<<"/","x">>)>>,
   <<Href(<<"/","x">>), Href(<<"h","t","t","p","s",":","/","/","b","/","y">>)>>}

\* the content type of a page response
HtmlOnly == {"text/html"}
ContentTypes == {"text/html", "text/plain"}

\* one anchor per file type named in IGNORE_TYPE, and a page link
TypeAnchors ==
  {Href(<<"/","f",".","i","m","g">>),
   Href(<<"/","f",".","j","p","g">>),
   Href(<<"/","f",".","p","n","g">>),
   Href(<<"/","f",".","j","p","e","g">>),
   Href(<<"/","f",".","g","i","f">>),
   Href(<<"/","f",".","m","p","3">>),
   Href(<<"/","f",".","m","p","4">>),
   Href(<<"/","f",".","c","g","i">>),
   Href(<<"/","f",".","w","a","v">>),
   Href(<<"/","f",".","a","v","i">>),
   Href(<<"/","f",".","w","m","v">>),
   Href(<<"/","f",".","f","l","v">>),
   Href(<<"/","x">>)}

TypeDocs == SeqsUpTo(TypeAnchors, MaxLinks)

\* seed lists of one URL, among them URLs of files of an ignored type
TypeSeedLists ==
  {<<u>> : u \in SeedUrls \cup {<<"h","t","t","p",":","/","/","a","/","s",".","c","g","i">>,
                              <<"h","t","t","p",":","/","/","a","/","a",".","p","n","g">>}}

\* what the robots.txt request may end in: an error status, an exception
\* (connection error, timeout), or a body
StatusError(txt) == [kind |-> "status_ge_400", txt |-> txt]
RaisedError == [kind |-> "exception", txt |-> <<>>]
Body(txt) == [kind |-> "ok", txt |-> txt]

RobotsTxts ==
  {<<>>,
   <<"D","i","s","a","l","l","o","w",":"," ","/","p","r","i","v","a","t","e","/","\n">>,
   <<"U","s","e","r","-","a","g","e","n","t",":"," ","*","\n",
     "D","i","s","a","l","l","o","w",":"," ","/","\n">>,
   <<"D","i","s","a","l","l","o","w",":"," ","/","x","\n">>,
   <<"D","i","s","a","l","l","o","w",":","\n">>}

\* the bodies an error response may carry
ErrorTxts ==
  {<<>>,
   <<"D","i","s","a","l","l","o","w",":"," ","/","x","\n">>}

AllRobots ==
  {RaisedError} \cup {StatusError(t) : t \in ErrorTxts}
                \cup {Body(t) : t \in RobotsTxts}

RunRobots ==
  {StatusError(<<>>), RaisedError,
   Body(<<"D","i","s","a","l","l","o","w",":"," ","/","x","\n">>)}

(***************************************************************************)
(* robot_exclusion and url_job                                             *)
(***************************************************************************)
\* f"{scheme}://{netloc}"
Origin(scheme, netloc) == scheme \o <<":","/","/">> \o netloc

\* url_job: the robots.txt URL requested for the page at url
OriginOf(parsed_url) == Origin(parsed_url.scheme, parsed_url.netloc)

robots_url(url) == urljoin(OriginOf(urlparse(url, <<>>)), ROBOTS_TXT)

\* robot_exclusion(url): the exclusion set the response yields.  Every line
\* that starts with "Disallow:" gives one entry: the origin of url joined
\* with the rest of the line, stripped.  An error status and an exception
\* give the empty set.
DisallowEntries(origin, lines) ==
  {urljoin(origin, Strip(Drop(lines[k], Len(DISALLOW)))) :
     k \in {n \in 1..Len(lines) : StartsWith(lines[n], DISALLOW)}}

\* mutant of robot_exclusion: the status of the response is not looked at
robot_exclusion_nostatus(url, resp) ==
  IF resp.kind = "exception" THEN {}
  ELSE DisallowEntries(OriginOf(urlparse(url, <<>>)), splitlines(resp.txt))

robot_exclusion(url, resp) ==
  IF resp.kind # "ok" THEN {}
  ELSE DisallowEntries(OriginOf(urlparse(url, <<>>)), splitlines(resp.txt))

\* link.get("href"): None when the attribute is missing; urlparse(None) has
\* empty components
href_of(link) == IF link.present THEN link.href ELSE <<>>

\* url_job, the URL built from one anchor
\* mutant of joined_link: the fragment of the link is kept
joined_link_with_fragment(self_req_scheme, self_netloc, result) ==
  urljoin(Origin(self_req_scheme,
                 IF result.netloc # <<>> THEN result.netloc ELSE self_netloc),
          with_fragment(result.path, result.fragment))

\* mutant of joined_link: the query of the link is kept
joined_link_with_query(self_req_scheme, self_netloc, result) ==
  urljoin(Origin(self_req_scheme,
                 IF result.netloc # <<>> THEN result.netloc ELSE self_netloc),
          with_query(result.path, result.query))

joined_link(self_req_scheme, self_netloc, result) ==
  urljoin(Origin(self_req_scheme,
                 IF result.netloc # <<>> THEN result.netloc ELSE self_netloc),
          result.path)

link_url(self_req_scheme, self_netloc, link) ==
  joined_link(self_req_scheme, self_netloc, urlparse(href_of(link), <<>>))

\* url_job, the tests a built URL passes before it is added to url_set
link_kept(url, exclusion_set) ==
  /\ url # <<>>
  /\ splitext_ext(url) \notin IGNORE_TYPE
  /\ url \notin exclusion_set

\* url_job: the url_set returned for a page whose anchors are html_doc
built_urls(parsed_url, html_doc) ==
  {link_url(parsed_url.scheme, parsed_url.netloc, html_doc[k]) :
     k \in 1..Len(html_doc)}

url_job(url, html_doc, exclusion_set) ==
  {u \in built_urls(urlparse(url, <<>>), html_doc) :
     link_kept(u, exclusion_set)}

(***************************************************************************)
(* State                                                                   *)
(***************************************************************************)
VARIABLES
  pc,           \* where main is: "seeding", "gather", "unwinding" (left by
                \* the exception of a job, asyncio.run still running the
                \* jobs to their end), "exited"
  depth,        \* args.depth
  URLS,         \* the seed URLs, in the order returned
  job,          \* job[i]: the url_job coroutine of URLS[i]
  s,            \* main's result set
  reported,     \* the URL counts printed (at most one)
  error,        \* the exception printed by the top level, "" if none
  page_gets,    \* the page requests issued by url_job, in order
  robots_gets,  \* the robots.txt requests issued, in order
  rounds        \* the number of asyncio.gather rounds started

vars == <<pc, depth, URLS, job, s, reported, error, page_gets, robots_gets,
          rounds>>

NewJob ==
  [pc |-> "start", ok |-> FALSE, content_type |-> "", html_doc |-> <<>>,
   robots |-> RaisedError, exclusion_set |-> {}, returned_none |-> FALSE,
   url_set |-> {}]

Init ==
  /\ pc = "seeding"
  /\ depth \in {DepthDefault, DepthFlagSet}
  /\ URLS = <<>>
  /\ job = <<>>
  /\ s = {}
  /\ reported = {}
  /\ error = ""
  /\ page_gets = <<>>
  /\ robots_gets = <<>>
  /\ rounds = 0

(***************************************************************************)
(* Seed resolution                                                         *)
(***************************************************************************)
\* mutant of SeedFail: a failed seed request counts as an empty seed list
SeedFail_continue ==
  /\ pc = "seeding"
  /\ pc' = "gather"
  /\ error' = "Exception"
  /\ rounds' = rounds + 1
  /\ UNCHANGED <<depth, URLS, job, s, reported, page_gets, robots_gets>>

\* get_seed_urls: get_req fails, the exception leaves main and is printed
SeedFail ==
  /\ pc = "seeding"
  /\ pc' = "exited"
  /\ error' = "Exception"
  /\ UNCHANGED <<depth, URLS, job, s, reported, page_gets, robots_gets, rounds>>

\* the exceptions of json.loads(results)['items'] and item['formattedUrl']:
\* the body is not JSON (JSONDecodeError), holds a number of more digits than
\* the integer conversion limit (ValueError) or is nested deeper than the
\* recursion limit (RecursionError); it is an object without 'items' or with
\* an item without 'formattedUrl' (KeyError); it is JSON of another shape,
\* such as a list, null or items that are not objects (TypeError)
SeedParseErrors ==
  {"JSONDecodeError", "ValueError", "RecursionError", "KeyError", "TypeError"}

\* get_seed_urls: the 200 response cannot be turned into a list of seeds
SeedMalformed ==
  /\ pc = "seeding"
  /\ pc' = "exited"
  /\ \E e \in SeedParseErrors : error' = e
  /\ UNCHANGED <<depth, URLS, job, s, reported, page_gets, robots_gets, rounds>>

\* get_seed_urls returns urls; main creates one url_job per entry of URLS with
\* asyncio.gather and waits; no job has run yet
get_seed_urls(urls) ==
  /\ pc = "seeding"
  /\ pc' = "gather"
  /\ URLS' = urls
  /\ job' = [i \in 1..Len(urls) |-> NewJob]
  /\ rounds' = rounds + 1
  /\ UNCHANGED <<depth, s, reported, error, page_gets, robots_gets>>

SeedOk(seedLists) == \E urls \in seedLists : get_seed_urls(urls)

(***************************************************************************)
(* url_job                                                                 *)
(***************************************************************************)
\* the jobs run while main waits in the gather and, when the exception of a
\* job has made main leave it, while asyncio.run runs them to their end: a job
\* that is cancelled while it waits catches the cancellation in get_req or in
\* robot_exclusion (bare except) and goes on as after a failed request
JobsRunning ==
  \/ pc = "gather"
  \/ pc = "unwinding"

\* the jobs created by gather take their first step in the order of URLS
FirstStepDue(i) ==
  /\ job[i].pc = "start"
  /\ \A j \in 1..(i - 1) : job[j].pc # "start"

\* a response can arrive only once every job has taken its first step
AllStarted == \A j \in 1..Len(URLS) : job[j].pc # "start"

\* mutant of JobRequest: a job beyond the budget args.depth requests nothing
\* and returns an empty set
JobRequest_budget(i) ==
  /\ JobsRunning
  /\ FirstStepDue(i)
  /\ IsString(URLS[i])
  /\ IF Len(page_gets) < depth
     THEN /\ job' = [job EXCEPT ![i].pc = "get_req"]
          /\ page_gets' = Append(page_gets, URLS[i])
     ELSE /\ job' = [job EXCEPT ![i].pc = "done"]
          /\ UNCHANGED page_gets
  /\ UNCHANGED <<pc, depth, URLS, s, reported, error, robots_gets, rounds>>

\* the first step of url_job for a URL that is a truthy non-string:
\* urlparse(url) raises AttributeError before any request, and the job ends
\* with it
JobRaise(i) ==
  /\ JobsRunning
  /\ FirstStepDue(i)
  /\ URLS[i] = TruthyNonString
  /\ job' = [job EXCEPT ![i].pc = "raised"]
  /\ UNCHANGED <<pc, depth, URLS, s, reported, error, page_gets, robots_gets,
                 rounds>>

\* the first step of url_job: session.get(url) is called and the job waits for
\* the response
JobRequest(i) ==
  /\ JobsRunning
  /\ FirstStepDue(i)
  /\ IsString(URLS[i])
  /\ job' = [job EXCEPT ![i].pc = "get_req"]
  /\ page_gets' = Append(page_gets, URLS[i])
  /\ UNCHANGED <<pc, depth, URLS, s, reported, error, robots_gets, rounds>>

\* get_req fails: url_job returns with a bare return, that is, None.  Either
\* session.get raises in the job's first step, without waiting (a URL the
\* client rejects, as it does every falsy non-string), or the request ends
\* later in an error status, a timeout, a connection error or a cancellation
JobGetFail(i) ==
  /\ JobsRunning
  /\ \/ /\ FirstStepDue(i)
        /\ URLS[i] # TruthyNonString
        /\ page_gets' = Append(page_gets, URLS[i])
     \/ /\ job[i].pc = "get_req"
        /\ AllStarted
        /\ UNCHANGED page_gets
  /\ job' = [job EXCEPT ![i].pc = "done", ![i].returned_none = TRUE]
  /\ UNCHANGED <<pc, depth, URLS, s, reported, error, robots_gets, rounds>>

\* mutant of JobGetOk: robots.txt is requested once per origin
JobGetOk_cached(i, docs, types) ==
  /\ JobsRunning
  /\ job[i].pc = "get_req"
  /\ AllStarted
  /\ \E d \in docs, ct \in types :
       job' = [job EXCEPT ![i].pc = "robots", ![i].ok = TRUE,
                          ![i].content_type = ct, ![i].html_doc = d]
  /\ robots_gets' =
       IF \E k \in 1..Len(robots_gets) : robots_gets[k] = robots_url(URLS[i])
       THEN robots_gets
       ELSE Append(robots_gets, robots_url(URLS[i]))
  /\ UNCHANGED <<pc, depth, URLS, s, reported, error, page_gets, rounds>>

\* get_req succeeds with a response of content type ct whose text holds the
\* anchors d: the text is parsed, whatever ct is, and the robots.txt request is
\* issued
JobGetOk(i, docs, types) ==
  /\ JobsRunning
  /\ job[i].pc = "get_req"
  /\ AllStarted
  /\ \E d \in docs, ct \in types :
       job' = [job EXCEPT ![i].pc = "robots", ![i].ok = TRUE,
                          ![i].content_type = ct, ![i].html_doc = d]
  /\ robots_gets' = Append(robots_gets, robots_url(URLS[i]))
  /\ UNCHANGED <<pc, depth, URLS, s, reported, error, page_gets, rounds>>

\* the robots.txt request ends; url_job filters the links and returns url_set
JobRobots(i, robots) ==
  /\ JobsRunning
  /\ job[i].pc = "robots"
  /\ \E resp \in robots :
       job' = [job EXCEPT
                 ![i].pc = "done",
                 ![i].robots = resp,
                 ![i].exclusion_set = robot_exclusion(robots_url(URLS[i]), resp),
                 ![i].url_set =
                    url_job(URLS[i], job[i].html_doc,
                            robot_exclusion(robots_url(URLS[i]), resp))]
  /\ UNCHANGED <<pc, depth, URLS, s, reported, error, page_gets, robots_gets,
                 rounds>>

(***************************************************************************)
(* main after the gather                                                   *)
(***************************************************************************)
\* the results of the jobs before the first one that returned None
RECURSIVE MergedBefore(_, _)
MergedBefore(results, k) ==
  IF k > Len(results) \/ results[k].returned_none THEN {}
  ELSE results[k].url_set \cup MergedBefore(results, k + 1)

\* mutant of Merge: the seed URLs are put into s with the links
Merge_with_seeds ==
  /\ pc = "gather"
  /\ \A i \in 1..Len(URLS) : job[i].pc = "done"
  /\ pc' = "exited"
  /\ s' = MergedBefore(job, 1) \cup {URLS[k] : k \in 1..Len(URLS)}
  /\ IF \E i \in 1..Len(URLS) : job[i].returned_none
     THEN error' = "TypeError" /\ UNCHANGED reported
     ELSE reported' = {Cardinality(s')} /\ UNCHANGED error
  /\ UNCHANGED <<depth, URLS, job, page_gets, robots_gets, rounds>>

\* mutant of Merge: the merge does not wait for the jobs still running
Merge_early ==
  /\ pc = "gather"
  /\ pc' = "exited"
  /\ s' = MergedBefore(job, 1)
  /\ IF \E i \in 1..Len(URLS) : job[i].returned_none
     THEN error' = "TypeError" /\ UNCHANGED reported
     ELSE reported' = {Cardinality(s')} /\ UNCHANGED error
  /\ UNCHANGED <<depth, URLS, job, page_gets, robots_gets, rounds>>

\* for t in results: s.update(t).  s.update(None) raises TypeError, which
\* leaves main and is printed by the top level; otherwise the count is printed
Merge ==
  /\ pc = "gather"
  /\ \A i \in 1..Len(URLS) : job[i].pc = "done"
  /\ pc' = "exited"
  /\ s' = MergedBefore(job, 1)
  /\ IF \E i \in 1..Len(URLS) : job[i].returned_none
     THEN error' = "TypeError" /\ UNCHANGED reported
     ELSE reported' = {Cardinality(s')} /\ UNCHANGED error
  /\ UNCHANGED <<depth, URLS, job, page_gets, robots_gets, rounds>>

\* asyncio.gather hands the exception of a job to main, once every job has
\* taken its first step; it leaves main and closes the session.  Nothing is
\* printed yet: asyncio.run first cancels the jobs still running and runs
\* them to their end (JobsRunning)
GatherRaise ==
  /\ pc = "gather"
  /\ \E i \in 1..Len(URLS) : job[i].pc = "raised"
  /\ \A i \in 1..Len(URLS) : job[i].pc # "start"
  /\ pc' = "unwinding"
  /\ UNCHANGED <<depth, URLS, job, s, reported, error, page_gets, robots_gets,
                 rounds>>

\* asyncio.run returns the exception that left main when every job has come
\* to its end, and the top level prints it
RunRaise ==
  /\ pc = "unwinding"
  /\ \A i \in 1..Len(URLS) : job[i].pc \in {"done", "raised"}
  /\ pc' = "exited"
  /\ error' = "AttributeError"
  /\ UNCHANGED <<depth, URLS, job, s, reported, page_gets, robots_gets, rounds>>

(***************************************************************************)
(* Specifications                                                          *)
(***************************************************************************)
Jobs == 1..Len(URLS)

\* the whole run, with up to MaxSeeds seeds, all pages served as text/html
Next ==
  \/ SeedFail
  \/ SeedMalformed
  \/ SeedOk(SeedLists \cup NonStringSeedLists)
  \/ \E i \in Jobs : JobRaise(i)
  \/ \E i \in Jobs : JobRequest(i)
  \/ \E i \in Jobs : JobGetFail(i)
  \/ \E i \in Jobs : JobGetOk(i, RunDocs, HtmlOnly)
  \/ \E i \in Jobs : JobRobots(i, RunRobots)
  \/ GatherRaise
  \/ RunRaise
  \/ Merge

Spec == Init /\ [][Next]_vars

\* one url_job, from seed resolution to its return, over every HTML page of up
\* to MaxLinks anchors and every robots.txt outcome; args.depth is the default
JobInit == Init /\ depth = DepthDefault

JobNext ==
  \/ SeedFail
  \/ SeedMalformed
  \/ SeedOk(OneSeedLists)
  \/ \E i \in Jobs : JobRequest(i)
  \/ \E i \in Jobs : JobGetFail(i)
  \/ \E i \in Jobs : JobGetOk(i, AllDocs, HtmlOnly)
  \/ \E i \in Jobs : JobRobots(i, AllRobots)

JobSpec == JobInit /\ [][JobNext]_vars

\* one url_job over seeds and links of every ignored file type and over pages
\* of either content type
TypeNext ==
  \/ SeedFail
  \/ SeedMalformed
  \/ SeedOk(TypeSeedLists)
  \/ \E i \in Jobs : JobRequest(i)
  \/ \E i \in Jobs : JobGetFail(i)
  \/ \E i \in Jobs : JobGetOk(i, TypeDocs, ContentTypes)
  \/ \E i \in Jobs : JobRobots(i, RunRobots)

TypeSpec == JobInit /\ [][TypeNext]_vars

(***************************************************************************)
(* Properties                                                              *)
(***************************************************************************)
Done(i) == job[i].pc = "done"

\* the URL url_job builds from anchor k of the page of job i
BuiltLink(i, k) ==
  link_url(urlparse(URLS[i], <<>>).scheme, urlparse(URLS[i], <<>>).netloc,
           job[i].html_doc[k])

Occurrences(seq, x) == Cardinality({k \in 1..Len(seq) : seq[k] = x})

\* str ends with p
EndsWith(str, p) ==
  Len(str) >= Len(p) /\ SubSeq(str, Len(str) - Len(p) + 1, Len(str)) = p

PNG == <<".","p","n","g">>
MP4 == <<".","m","p","4">>
CGI == <<".","c","g","i">>

\* C1: failure isolation.  When the run is over and the batch held a URL whose
\* page fetch failed and one whose fetch succeeded, the batch completed
\* without an error and the merged set s holds every link found by the
\* successful URLs.
C1_FailureIsolation ==
  (/\ pc = "exited"
   /\ \E i \in Jobs : job[i].returned_none
   /\ \E i \in Jobs : job[i].ok)
  => (/\ error = ""
      /\ \A i \in Jobs : job[i].ok => job[i].url_set \subseteq s)

\* C2: once seed resolution has succeeded, a run that is over has reported a
\* URL count, whatever the outcomes of the page and robots.txt fetches.
C2_AlwaysReportsCount ==
  (pc = "exited" /\ rounds > 0) => reported # {}

\* C3 as stated: robots single-flight.  No robots.txt URL (one per origin) is
\* requested more than once in a run.
C3_SingleFlight ==
  \A k, l \in 1..Len(robots_gets) :
    k # l => robots_gets[k] # robots_gets[l]

\* C3 as amended: every URL whose page fetch succeeded issues exactly one
\* robots.txt request, for its own origin, and no other request is issued;
\* an origin is requested once per such URL, not once per run.
C3_OneRobotsFetchPerPage ==
  /\ \A k \in 1..Len(robots_gets) :
       \E i \in Jobs : job[i].ok /\ robots_gets[k] = robots_url(URLS[i])
  /\ \A i \in Jobs :
       Occurrences(robots_gets, robots_url(URLS[i])) =
         Cardinality({j \in Jobs : /\ job[j].ok
                                  /\ robots_url(URLS[j]) = robots_url(URLS[i])})

\* two pages of one origin fetched in the same batch, each with its own
\* robots.txt request
C3_Witness ==
  \E i, j \in Jobs :
    /\ i # j
    /\ job[i].ok /\ job[j].ok
    /\ robots_url(URLS[i]) = robots_url(URLS[j])
    /\ Occurrences(robots_gets, robots_url(URLS[i])) = 2

\* the Disallow values of a robots.txt body, as path prefixes
DisallowPrefixes(txt) ==
  {Strip(Drop(splitlines(txt)[k], Len(DISALLOW))) :
     k \in {n \in 1..Len(splitlines(txt)) :
              StartsWith(splitlines(txt)[n], DISALLOW)}}

\* the link is on the origin of the page it was found on
SameOrigin(u, page) ==
  /\ urlparse(u, <<>>).scheme = urlparse(page, <<>>).scheme
  /\ urlparse(u, <<>>).netloc = urlparse(page, <<>>).netloc

\* C4: robots enforcement by prefix.  When the robots.txt of the page's origin
\* was fetched successfully, a link on that origin that the extension filter
\* lets through is left out of url_set exactly when its path starts with one
\* of the Disallow prefixes.  (Stated for the bodies whose Disallow lines all
\* name a path: an empty Disallow value is a prefix of every path.)
C4_PrefixEnforcement ==
  \A i \in Jobs :
    (/\ Done(i) /\ job[i].ok /\ job[i].robots.kind = "ok"
     /\ <<>> \notin DisallowPrefixes(job[i].robots.txt)) =>
      \A k \in 1..Len(job[i].html_doc) :
        (/\ SameOrigin(BuiltLink(i, k), URLS[i])
         /\ splitext_ext(BuiltLink(i, k)) \notin IGNORE_TYPE)
        => (BuiltLink(i, k) \notin job[i].url_set
            <=> \E prefix \in DisallowPrefixes(job[i].robots.txt) :
                  StartsWith(urlparse(BuiltLink(i, k), <<>>).path, prefix))

\* C5: fail-open robots.  When the robots.txt request ends in an error status
\* or an exception, the exclusion set is empty, the job still returns its
\* url_set, and that set holds every built link the extension filter lets
\* through.
C5_FailOpen ==
  \A i \in Jobs :
    (Done(i) /\ job[i].ok /\ job[i].robots.kind # "ok") =>
      /\ job[i].exclusion_set = {}
      /\ ~job[i].returned_none
      /\ \A k \in 1..Len(job[i].html_doc) :
           splitext_ext(BuiltLink(i, k)) \notin IGNORE_TYPE
             => BuiltLink(i, k) \in job[i].url_set

\* an error response whose body holds a Disallow line for a link of the page,
\* and the link is kept
C5_Witness ==
  \E i \in Jobs :
    /\ Done(i) /\ job[i].ok
    /\ job[i].robots.kind = "status_ge_400"
    /\ job[i].robots.txt # <<>>
    /\ \E k \in 1..Len(job[i].html_doc) :
         /\ job[i].html_doc[k] = Href(<<"/","x">>)
         /\ BuiltLink(i, k) \in job[i].url_set

CeilDiv(a, b) == (a + b - 1) \div b

\* C6 as stated: budget termination, with args.depth as the configured budget:
\* at most depth URLs are dispatched, in at most ceil(depth / k) rounds for
\* every batch size k.
C6_BudgetBound ==
  /\ Len(page_gets) <= depth
  /\ \A k \in 1..(MaxSeeds + 1) : rounds <= CeilDiv(depth, k)

\* the entries of the seed list on which urlparse(url) does not raise
Parsable(u) == u # TruthyNonString

\* C6 as amended: there is at most one dispatch round, and it requests exactly
\* the entries of the seed list on which urlparse does not raise, one request
\* per entry and in the order of the list, also when they are more than
\* args.depth, which does not bound the round.
C6_OneRoundOfSeeds ==
  /\ rounds <= 1
  /\ Len(page_gets) <= Len(SelectSeq(URLS, Parsable))
  /\ \A k \in 1..Len(page_gets) : page_gets[k] = SelectSeq(URLS, Parsable)[k]
  /\ (\A i \in Jobs : job[i].pc # "start")
       => page_gets = SelectSeq(URLS, Parsable)
  /\ (rounds = 0 => page_gets = <<>>)

\* more seeds dispatched than args.depth
C6_Witness ==
  /\ rounds = 1
  /\ Len(page_gets) > depth
  /\ pc = "exited"

\* C7: idempotent dedup.  No URL is dispatched for fetching more than once,
\* also when it is listed more than once.
C7_DispatchedOnce ==
  \A k, l \in 1..Len(page_gets) : k # l => page_gets[k] # page_gets[l]

\* the last "/"-separated component of a path
LastSegment(path) == Drop(path, RFind(path, "/"))

\* only dots precede the extension ext in the component seg
OnlyDotsBefore(seg, ext) ==
  \A k \in 1..(Len(seg) - Len(ext)) : seg[k] = "."

\* C8 as stated: extension filter.  No URL of a url_set has a path that ends
\* in .png, .mp4 or .cgi, whatever the robots.txt outcome.
C8_ExtensionFilter ==
  \A i \in Jobs : Done(i) =>
    \A u \in job[i].url_set : \A ext \in {PNG, MP4, CGI} :
      ~EndsWith(urlparse(u, <<>>).path, ext)

\* C8 as amended: a URL of a url_set whose path ends in .png, .mp4 or .cgi has
\* a last path component that is that extension preceded by dots only (a
\* dot-file such as /.png, which has no extension); every other link that
\* ends so is filtered, whatever the robots.txt outcome.
C8_ExtensionFilterNamed ==
  \A i \in Jobs : Done(i) =>
    \A u \in job[i].url_set : \A ext \in {PNG, MP4, CGI} :
      EndsWith(urlparse(u, <<>>).path, ext)
        => OnlyDotsBefore(LastSegment(urlparse(u, <<>>).path), ext)

\* a page with a link to /a.png and one to /x, robots.txt fetched: /x is kept
\* and /a.png is not
C8_Witness ==
  \E i \in Jobs :
    /\ Done(i) /\ job[i].ok /\ job[i].robots.kind = "ok"
    /\ \E k, l \in 1..Len(job[i].html_doc) :
         /\ job[i].html_doc[k] = Href(<<"/","a",".","p","n","g">>)
         /\ BuiltLink(i, k) \notin job[i].url_set
         /\ job[i].html_doc[l] = Href(<<"/","x">>)
         /\ BuiltLink(i, l) \in job[i].url_set

\* a raw link without its fragment
WithoutFragment(h) == IF Find(h, "#") > 0 THEN Take(h, Find(h, "#") - 1) ELSE h

\* C9: fragment equivalence.  Two links of one page that differ only in
\* their fragment give the same URL, so url_set holds one entry for them (or
\* none, when that URL is filtered).
C9_FragmentEquivalence ==
  \A i \in Jobs : Done(i) =>
    \A k, l \in 1..Len(job[i].html_doc) :
      (/\ job[i].html_doc[k].present
       /\ job[i].html_doc[l].present
       /\ WithoutFragment(job[i].html_doc[k].href)
            = WithoutFragment(job[i].html_doc[l].href))
      => /\ BuiltLink(i, k) = BuiltLink(i, l)
         /\ Cardinality({BuiltLink(i, k), BuiltLink(i, l)}
                          \cap job[i].url_set) <= 1

\* /x#1 and /x#2 on one page: one entry
C9_Witness ==
  \E i \in Jobs :
    /\ Done(i)
    /\ job[i].html_doc = <<Href(<<"/","x","#","1">>), Href(<<"/","x","#","2">>)>>
    /\ Cardinality(job[i].url_set) = 1

\* C10: seed failure is fatal.  Once seed resolution has failed, the run is
\* over with the error printed, no page and no robots.txt request was issued,
\* no job exists and no count is reported.
C10_SeedFailureFatal ==
  (\/ error \in ({"Exception"} \cup SeedParseErrors) \ {"TypeError"}
   \/ (error = "TypeError" /\ rounds = 0)) =>
    /\ pc = "exited"
    /\ page_gets = <<>>
    /\ robots_gets = <<>>
    /\ job = <<>>
    /\ rounds = 0
    /\ reported = {}

C10_Witness == pc = "exited" /\ error = "Exception"


\* the URLs of a list, as a set
UrlsOf(urls) == {urls[k] : k \in 1..Len(urls)}

\* the links accepted from the dispatched pages: the union of the url_sets
AcceptedLinks == UNION {job[i].url_set : i \in Jobs}

\* C11 as stated: completeness of the count.  The reported count is the number
\* of distinct URLs among the seed URLs and the links accepted from the
\* dispatched pages.
C11_CountOfSeedsAndLinks ==
  reported # {} => reported = {Cardinality(UrlsOf(URLS) \cup AcceptedLinks)}

\* C11 as amended: the reported count is the number of distinct links accepted
\* from the dispatched pages, which is the size of s; a seed URL is counted
\* only when a dispatched page links to it.
C11_CountOfLinks ==
  reported # {} =>
    /\ s = AcceptedLinks
    /\ reported = {Cardinality(AcceptedLinks)}

\* a count is reported for a run with two seeds whose pages gave links, and no
\* seed is among the counted URLs
C11_Witness ==
  /\ pc = "exited"
  /\ reported = {Cardinality(s)}
  /\ s # {}
  /\ Cardinality(UrlsOf(URLS)) = 2
  /\ UrlsOf(URLS) \cap s = {}


\* the merged links that were never dispatched for fetching
Undispatched == s \ UrlsOf(page_gets)

\* C12: frontier exhaustion.  A run that has reported its count has
\* dispatched as many URLs as the budget (args.depth) allows, or has no merged
\* link left undispatched.
C12_DoneWhenExhausted ==
  (pc = "exited" /\ reported # {}) =>
    (Len(page_gets) >= depth \/ Undispatched = {})

\* C13: batch-synchronous merge.  While a job of the batch has not returned,
\* the shared set s is as it was before the batch (empty), nothing is reported
\* and main is still in the gather, unless the exception of a job has made
\* main leave it; s is written and the count reported only when every job has
\* returned; and the run has at most one batch.
C13_MergeAfterBatch ==
  /\ (\E i \in Jobs : ~Done(i))
       => /\ s = {} /\ reported = {}
          /\ (pc \in {"gather", "unwinding"} \/ error = "AttributeError")
  /\ (s # {} \/ reported # {}) => (pc = "exited" /\ \A i \in Jobs : Done(i))
  /\ rounds <= 1

\* one job of a batch of two has returned links, the other is still running,
\* and s is not written yet
C13_Witness ==
  \E i, j \in Jobs :
    /\ Done(i) /\ job[i].url_set # {}
    /\ ~Done(j)
    /\ s = {}


\* C14: full-site disallow.  When the robots.txt of the page's origin was
\* fetched successfully and holds the line "Disallow: /", no link on that
\* origin is in url_set.  (Stated for the anchors that have a non-empty href.)
C14_FullSiteDisallow ==
  \A i \in Jobs :
    (/\ Done(i) /\ job[i].ok /\ job[i].robots.kind = "ok"
     /\ <<"/">> \in DisallowPrefixes(job[i].robots.txt)) =>
      \A k \in 1..Len(job[i].html_doc) :
        (/\ href_of(job[i].html_doc[k]) # <<>>
         /\ SameOrigin(BuiltLink(i, k), URLS[i]))
        => BuiltLink(i, k) \notin job[i].url_set


\* robots.txt bodies that the origin of a link may serve
LinkOriginPolicies ==
  RobotsTxts \cup {<<"D","i","s","a","l","l","o","w",":"," ","/","p","r","i","v","a","t","e","/","x","\n">>}

\* C15: robots is per link origin.  A link to another origin than the page's
\* is left out of url_set when the robots.txt of the link's own origin
\* disallows it.  url_job requests no robots.txt but the page origin's, so the
\* body served by the link's origin is not part of the state: the property is
\* stated for every body that origin may serve, with the exclusion entries
\* robot_exclusion derives from it.
C15_RobotsOfLinkOrigin ==
  \A i \in Jobs : (Done(i) /\ job[i].ok) =>
    \A k \in 1..Len(job[i].html_doc) : \A txt \in LinkOriginPolicies :
      (/\ ~SameOrigin(BuiltLink(i, k), URLS[i])
       /\ BuiltLink(i, k)
            \in robot_exclusion(robots_url(BuiltLink(i, k)), Body(txt)))
      => BuiltLink(i, k) \notin job[i].url_set


\* a raw link without its query and fragment
WithoutQuery(h) ==
  IF Find(WithoutFragment(h), "?") > 0
  THEN Take(h, Find(WithoutFragment(h), "?") - 1)
  ELSE WithoutFragment(h)

\* the query of a raw link
QueryOf(h) == Drop(WithoutFragment(h), Len(WithoutQuery(h)))

\* C16 as stated: the query is part of the key.  Two links of one page that
\* have the same host and path and different query strings give two distinct
\* URLs.
C16_QueryInKey ==
  \A i \in Jobs : Done(i) =>
    \A k, l \in 1..Len(job[i].html_doc) :
      (/\ job[i].html_doc[k].present
       /\ job[i].html_doc[l].present
       /\ WithoutQuery(job[i].html_doc[k].href)
            = WithoutQuery(job[i].html_doc[l].href)
       /\ QueryOf(job[i].html_doc[k].href) # QueryOf(job[i].html_doc[l].href))
      => BuiltLink(i, k) # BuiltLink(i, l)

\* C16 as amended: the query is not part of the key.  Two links of one page
\* that differ only in their query strings (and fragments) give the same URL,
\* which holds no "?", so url_set holds one entry for them (or none, when that
\* URL is filtered).
C16_QueryDropped ==
  \A i \in Jobs : Done(i) =>
    /\ \A u \in job[i].url_set : Find(u, "?") = 0
    /\ \A k, l \in 1..Len(job[i].html_doc) :
         (/\ k < l
          /\ job[i].html_doc[k].present
          /\ job[i].html_doc[l].present
          /\ WithoutQuery(job[i].html_doc[k].href)
               = WithoutQuery(job[i].html_doc[l].href))
         => /\ BuiltLink(i, k) = BuiltLink(i, l)
            /\ Cardinality({BuiltLink(i, k), BuiltLink(i, l)}
                             \cap job[i].url_set) <= 1

\* /x?q and /x?r on one page: one entry, http://a/x or https://b/x
C16_Witness ==
  \E i \in Jobs :
    /\ Done(i)
    /\ job[i].html_doc =
         <<Href(<<"/","x","?","q">>), Href(<<"/","x","?","r">>)>>
    /\ Cardinality(job[i].url_set) = 1
    /\ \A u \in job[i].url_set : EndsWith(u, <<"/","x">>)


\* C17: empty or missing href.  An anchor without an href, or with an empty
\* one, contributes no URL: every URL of url_set is built from an anchor of
\* the page whose href is not empty.
C17_EmptyHrefYieldsNothing ==
  \A i \in Jobs : Done(i) =>
    \A u \in job[i].url_set :
      \E k \in 1..Len(job[i].html_doc) :
        /\ job[i].html_doc[k].present
        /\ job[i].html_doc[k].href # <<>>
        /\ BuiltLink(i, k) = u


\* C18: content-type gate.  A page fetched successfully with a content type
\* other than text/html contributes no links, and the job returns without an
\* error.
C18_ContentTypeGate ==
  \A i \in Jobs :
    (Done(i) /\ job[i].ok /\ job[i].content_type # "text/html") =>
      (job[i].url_set = {} /\ ~job[i].returned_none)

\* C19: seed URLs go through the extension filter.  No URL dispatched for
\* fetching has an extension of IGNORE_TYPE.
C19_SeedsFiltered ==
  \A k \in 1..Len(page_gets) : splitext_ext(page_gets[k]) \notin IGNORE_TYPE

\* the file types the filter is said to cover
MediaTypes ==
  {<<"i","m","g">>, <<"j","p","g">>, <<"p","n","g">>, <<"j","p","e","g">>,
   <<"g","i","f">>, <<"m","p","3">>, <<"m","p","4">>, <<"c","g","i">>,
   <<"w","a","v">>, <<"a","v","i">>, <<"w","m","v">>, <<"f","l","v">>}

\* C20: every listed type is filtered.  No URL of a url_set has a path that
\* ends in a dot followed by one of the listed types, whatever the robots.txt
\* outcome.  (Stated for named files: a last path component that is more than
\* dots and the type.)
C20_EveryTypeFiltered ==
  \A i \in Jobs : Done(i) =>
    \A u \in job[i].url_set : \A type \in MediaTypes :
      EndsWith(urlparse(u, <<>>).path, <<".">> \o type)
        => OnlyDotsBefore(LastSegment(urlparse(u, <<>>).path), <<".">> \o type)

=============================================================================
